---- MODULE Spec2Model ----
(***************************************************************************)
(* Model of the PTCGP card API (src/main.py): one process-wide cache       *)
(* cards_data, filled once by startup_event from data/cards.json, and      *)
(* seven read-only query handlers plus the root handler.                   *)
(*                                                                         *)
(* Strings are sequences of one-character strings, so that str.lower(),    *)
(* the substring test `in` and the f-string building the composite key     *)
(* are computed and not assumed.  A JSON object is a sequence of entries   *)
(* [k, isList, rec, list] in the document's order with distinct keys (a    *)
(* Python dict keeps insertion order); a card record is a function whose   *)
(* DOMAIN is the set of fields the record has.  Documents range over the   *)
(* shapes the specification defines: a top-level list of records, or a     *)
(* mapping whose key "cards", when present, is bound to a list of records  *)
(* and whose other keys are bound to records.  Field values are strings.   *)
(***************************************************************************)
EXTENDS Integers, Sequences, FiniteSets, TLC

VARIABLES file, phase, cards_data, req, resp

vars == <<file, phase, cards_data, req, resp>>

\* ---------------------------------------------------------------- bounds
\* longest list of records in a document
MaxCards == 2
\* most entries in a top-level mapping
MaxEntries == 2
\* largest offset tried
MaxOffset == 2
\* largest limit tried, besides the maximum 1000
MaxLimit == 2

\* ------------------------------------------------------------- constants
\* Query(None, ge=1, le=1000)
LimitLe == 1000
LimitGe == 1
\* limit absent (None); ge=1 keeps real limits apart
NoLimit == 0

\* --------------------------------------------------------------- strings
UpperCase == <<"A","B","C","D","E","F","G","H","I","J","K","L","M",
               "N","O","P","Q","R","S","T","U","V","W","X","Y","Z">>
LowerCase == <<"a","b","c","d","e","f","g","h","i","j","k","l","m",
               "n","o","p","q","r","s","t","u","v","w","x","y","z">>

LowerChar(c) ==
  IF \E i \in 1..Len(UpperCase) : UpperCase[i] = c
  THEN LowerCase[CHOOSE i \in 1..Len(UpperCase) : UpperCase[i] = c]
  ELSE c

\* str.lower()
lower(s) == [i \in 1..Len(s) |-> LowerChar(s[i])]

\* the Python test  q in s  on strings
Contains(s, q) ==
  \E i \in 0..(Len(s) - Len(q)) : SubSeq(s, i + 1, i + Len(q)) = q

EmptyStr == <<>>
UnknownLabel == <<"U","n","k","n","o","w","n">>
NoneStr == <<"N","o","n","e">>
CardsKey == <<"c","a","r","d","s">>

\* f"/{set_id}/{card_id}"
CompositeKey(set_id, card_id) == <<"/">> \o set_id \o <<"/">> \o card_id

\* card.get(field, default)
Get(card, field, default) ==
  IF field \in DOMAIN card THEN card[field] ELSE default

\* str(card.get("id")): a string is itself, the missing field gives "None"
IdStr(card) == IF "id" \in DOMAIN card THEN card["id"] ELSE NoneStr

\* ------------------------------------------------------- the input space
CardPool ==
  << [id |-> <<"/","A","/","1">>, name |-> <<"C","h","a">>,
      type |-> <<"F","i">>, rarity |-> <<"C">>, set |-> <<"A">>],
     [id |-> <<"/","A","/","1">>, name |-> <<"c","h","a","r">>,
      type |-> <<"f","i">>, rarity |-> <<"c">>, set |-> <<"a">>],
     [name |-> <<"B","l">>, type |-> <<"F","i","r">>] >>

PoolIdx == 1..Len(CardPool)

\* the records tried as values of a top-level mapping
DictIdx == {1, 3}

RECURSIVE SeqsUpTo(_, _)
SeqsUpTo(S, n) ==
  IF n = 0 THEN {<<>>}
  ELSE LET shorter == SeqsUpTo(S, n - 1)
       IN shorter \cup {Append(s, x) : s \in {t \in shorter : Len(t) = n - 1}, x \in S}

CardLists == {[i \in 1..Len(ix) |-> CardPool[ix[i]]] : ix \in SeqsUpTo(PoolIdx, MaxCards)}

RecordKeys == {<<"/","A","/","1">>, <<"k">>}

NoCard == [x \in {} |-> <<>>]

RecEntry(k, c) == [k |-> k, isList |-> FALSE, rec |-> c, list |-> <<>>]
ListEntry(l) == [k |-> CardsKey, isList |-> TRUE, rec |-> NoCard, list |-> l]

Entries ==
  {RecEntry(k, CardPool[i]) : k \in RecordKeys, i \in DictIdx}
    \cup {ListEntry(l) : l \in CardLists}

DistinctKeys(es) == \A i, j \in 1..Len(es) : es[i].k = es[j].k => i = j

Dicts == {es \in SeqsUpTo(Entries, MaxEntries) : DistinctKeys(es)}

\* the values json.load can return, and Python's None
NoneValue == [kind |-> "none", items |-> <<>>, entries |-> <<>>]
ListValue(l) == [kind |-> "list", items |-> l, entries |-> <<>>]
DictValue(es) == [kind |-> "dict", items |-> <<>>, entries |-> es]

Documents == {ListValue(l) : l \in CardLists} \cup {DictValue(es) : es \in Dicts}

\* data/cards.json as the process finds it
Files ==
  {[state |-> "missing", doc |-> NoneValue], [state |-> "malformed", doc |-> NoneValue]}
    \cup {[state |-> "ok", doc |-> d] : d \in Documents}

Strs1 == {<<"A">>, <<"a">>}
Strs2 == {<<"1">>, <<"2">>}
NameQueries == {<<"c","h">>, <<"H","A">>, <<"z">>}
FilterValues == {<<"f","i">>, <<"F","I","R">>, <<"c">>, <<"A">>}
Limits == {NoLimit} \cup (LimitGe..MaxLimit) \cup {LimitLe}
Offsets == 0..MaxOffset

\* ------------------------------------------------------------- responses
NoStats == [total |-> 0, types |-> <<>>, rarities |-> <<>>, sets |-> <<>>]

Response(kind, status, detail, cards, stats) ==
  [kind |-> kind, status |-> status, detail |-> detail, cards |-> cards, stats |-> stats]

NoResp == Response("none", 0, "", <<>>, NoStats)

\* raise HTTPException(status_code=500, detail="Cards data not loaded")
NotLoaded == Response("error", 500, "Cards data not loaded", <<>>, NoStats)

\* raise HTTPException(status_code=404, detail="Card not found")
NotFound == Response("error", 404, "Card not found", <<>>, NoStats)

\* an exception no handler catches: the framework answers 500
Crash == Response("error", 500, "Internal Server Error", <<>>, NoStats)

CardsResp(cards) == Response("cards", 200, "", cards, NoStats)
CardResp(card) == Response("card", 200, "", <<card>>, NoStats)
StatsResp(st) == Response("stats", 200, "", <<>>, st)
RootResp == Response("info", 200, "PTCGP API - TCG Pocket Simulator", <<>>, NoStats)

Request(op, limit, offset, a, b) ==
  [op |-> op, limit |-> limit, offset |-> offset, a |-> a, b |-> b]

NoReq == Request("none", NoLimit, 0, EmptyStr, EmptyStr)

\* ------------------------------------------------------ the Python pieces
\* Variant of the guard that tests emptiness only, letting None through.
Falsy_EmptyOnly(d) ==
  \/ d.kind = "list" /\ d.items = <<>>
  \/ d.kind = "dict" /\ d.entries = <<>>

\* not cards_data : None, [] and {} are all falsy
Falsy(d) ==
  \/ d.kind = "none"
  \/ d.kind = "list" /\ d.items = <<>>
  \/ d.kind = "dict" /\ d.entries = <<>>

HasKey(es, k) == \E i \in 1..Len(es) : es[i].k = k

Lookup(es, k) == es[CHOOSE i \in 1..Len(es) : es[i].k = k]

\* list(cards_data.values()); only read when no key "cards" exists
Values(es) == [i \in 1..Len(es) |-> es[i].rec]

\* cards_data.get("cards", default)
GetCards(es, default) ==
  IF HasKey(es, CardsKey) THEN Lookup(es, CardsKey).list ELSE default

\* the if / elif / else of get_all_cards
CardsOf(d) ==
  IF d.kind = "list" THEN d.items
  ELSE IF d.kind = "dict" THEN GetCards(d.entries, Values(d.entries))
  ELSE <<>>

\* the conditional expression of the search, filter and stats handlers;
\* on a value that is neither list nor dict, .get raises AttributeError
CardsExpr(d) ==
  IF d.kind = "list" THEN [ok |-> TRUE, cards |-> d.items]
  ELSE IF d.kind = "dict"
       THEN [ok |-> TRUE, cards |-> GetCards(d.entries, Values(d.entries))]
       ELSE [ok |-> FALSE, cards |-> <<>>]

Min(a, b) == IF a <= b THEN a ELSE b

\* cards[offset:]
SliceFrom(cards, offset) ==
  IF offset >= Len(cards) THEN <<>> ELSE SubSeq(cards, offset + 1, Len(cards))

\* cards[:limit]
SliceTo(cards, limit) == SubSeq(cards, 1, Min(limit, Len(cards)))

\* for card in cards: if str(card.get("id")) == key: return card
RECURSIVE ScanId(_, _, _)
ScanId(cards, key, i) ==
  IF i > Len(cards) THEN NotFound
  ELSE IF IdStr(cards[i]) = key THEN CardResp(cards[i])
  ELSE ScanId(cards, key, i + 1)

NameMatches(card, name) == Contains(lower(Get(card, "name", EmptyStr)), lower(name))

FieldEquals(card, field, value) == lower(Get(card, field, EmptyStr)) = lower(value)

\* table[label] = table.get(label, 0) + 1, the table in insertion order
Incr(table, label) ==
  IF \E i \in 1..Len(table) : table[i].label = label
  THEN [i \in 1..Len(table) |->
          IF table[i].label = label
          THEN [label |-> label, n |-> table[i].n + 1] ELSE table[i]]
  ELSE Append(table, [label |-> label, n |-> 1])

RECURSIVE Tally(_, _, _)
Tally(cards, field, i) ==
  IF i = 0 THEN <<>>
  ELSE Incr(Tally(cards, field, i - 1), Get(cards[i], field, UnknownLabel))

\* ------------------------------------------------- the handlers' results
\* Variant of the loader that swallows a missing file and returns [].
load_cards_data_fallback(f) ==
  IF f.state = "missing"
  THEN [raised |-> FALSE, detail |-> "", value |-> ListValue(<<>>)]
  ELSE IF f.state = "malformed"
  THEN [raised |-> TRUE, detail |-> "Invalid JSON format in cards data", value |-> NoneValue]
  ELSE [raised |-> FALSE, detail |-> "", value |-> f.doc]

load_cards_data(f) ==
  IF f.state = "missing"
  THEN [raised |-> TRUE, detail |-> "Cards data file not found", value |-> NoneValue]
  ELSE IF f.state = "malformed"
  THEN [raised |-> TRUE, detail |-> "Invalid JSON format in cards data", value |-> NoneValue]
  ELSE [raised |-> FALSE, detail |-> "", value |-> f.doc]

get_all_cards_result(d, limit, offset) ==
  IF Falsy(d) THEN NotLoaded
  ELSE LET cards == SliceFrom(CardsOf(d), offset)
       IN CardsResp(IF limit # NoLimit THEN SliceTo(cards, limit) ELSE cards)

get_card_by_id_result(d, set_id, card_id) ==
  LET key == CompositeKey(set_id, card_id)
  IN IF Falsy(d) THEN NotLoaded
     ELSE IF d.kind = "list" THEN ScanId(d.items, key, 1)
     ELSE IF d.kind = "dict"
     THEN IF HasKey(d.entries, key)
          THEN LET e == Lookup(d.entries, key)
               IN IF e.isList THEN CardsResp(e.list) ELSE CardResp(e.rec)
          ELSE ScanId(GetCards(d.entries, <<>>), key, 1)
     ELSE NotFound

search_cards_by_name_result(d, name) ==
  IF Falsy(d) THEN NotLoaded
  ELSE LET c == CardsExpr(d)
           Test(card) == NameMatches(card, name)
       IN IF c.ok THEN CardsResp(SelectSeq(c.cards, Test)) ELSE Crash

filter_result(d, field, value) ==
  IF Falsy(d) THEN NotLoaded
  ELSE LET c == CardsExpr(d)
           Test(card) == FieldEquals(card, field, value)
       IN IF c.ok THEN CardsResp(SelectSeq(c.cards, Test)) ELSE Crash

filter_cards_by_type_result(d, card_type) == filter_result(d, "type", card_type)
filter_cards_by_rarity_result(d, rarity) == filter_result(d, "rarity", rarity)
filter_cards_by_set_result(d, set_name) == filter_result(d, "set", set_name)

get_stats_result(d) ==
  IF Falsy(d) THEN NotLoaded
  ELSE LET c == CardsExpr(d)
           n == Len(c.cards)
       IN IF c.ok
          THEN StatsResp([total |-> n,
                          types |-> Tally(c.cards, "type", n),
                          rarities |-> Tally(c.cards, "rarity", n),
                          sets |-> Tally(c.cards, "set", n)])
          ELSE Crash

\* ----------------------------------------------------------- the machine
Init ==
  /\ file \in Files
  /\ phase = "init"
  /\ cards_data = NoneValue
  /\ req = NoReq
  /\ resp = NoResp

\* The startup hook runs once.  A raised HTTPException leaves the global
\* unassigned.  The exchange variables restart with the lifecycle event.
startup_event ==
  /\ phase = "init"
  /\ LET r == load_cards_data(file)
     IN IF r.raised
        THEN phase' = "failed" /\ cards_data' = cards_data
        ELSE phase' = "loaded" /\ cards_data' = r.value
  /\ req' = NoReq
  /\ resp' = NoResp
  /\ UNCHANGED file

root ==
  /\ req' = Request("root", NoLimit, 0, EmptyStr, EmptyStr)
  /\ resp' = RootResp
  /\ UNCHANGED <<file, phase, cards_data>>

\* Variant of the listing that drops the skipped records in place
\* (del cards[:offset] on the alias of the global list).
get_all_cards_inplace ==
  \E limit \in Limits, offset \in Offsets :
    /\ req' = Request("get_all_cards", limit, offset, EmptyStr, EmptyStr)
    /\ resp' = get_all_cards_result(cards_data, limit, offset)
    /\ cards_data' = IF cards_data.kind = "list"
                     THEN ListValue(SliceFrom(cards_data.items, offset))
                     ELSE cards_data
    /\ UNCHANGED <<file, phase>>

get_all_cards ==
  \E limit \in Limits, offset \in Offsets :
    /\ req' = Request("get_all_cards", limit, offset, EmptyStr, EmptyStr)
    /\ resp' = get_all_cards_result(cards_data, limit, offset)
    /\ UNCHANGED <<file, phase, cards_data>>

get_card_by_id ==
  \E set_id \in Strs1, card_id \in Strs2 :
    /\ req' = Request("get_card_by_id", NoLimit, 0, set_id, card_id)
    /\ resp' = get_card_by_id_result(cards_data, set_id, card_id)
    /\ UNCHANGED <<file, phase, cards_data>>

search_cards_by_name ==
  \E name \in NameQueries :
    /\ req' = Request("search_cards_by_name", NoLimit, 0, name, EmptyStr)
    /\ resp' = search_cards_by_name_result(cards_data, name)
    /\ UNCHANGED <<file, phase, cards_data>>

filter_cards_by_type ==
  \E card_type \in FilterValues :
    /\ req' = Request("filter_cards_by_type", NoLimit, 0, card_type, EmptyStr)
    /\ resp' = filter_cards_by_type_result(cards_data, card_type)
    /\ UNCHANGED <<file, phase, cards_data>>

filter_cards_by_rarity ==
  \E rarity \in FilterValues :
    /\ req' = Request("filter_cards_by_rarity", NoLimit, 0, rarity, EmptyStr)
    /\ resp' = filter_cards_by_rarity_result(cards_data, rarity)
    /\ UNCHANGED <<file, phase, cards_data>>

filter_cards_by_set ==
  \E set_name \in FilterValues :
    /\ req' = Request("filter_cards_by_set", NoLimit, 0, set_name, EmptyStr)
    /\ resp' = filter_cards_by_set_result(cards_data, set_name)
    /\ UNCHANGED <<file, phase, cards_data>>

get_stats ==
  /\ req' = Request("get_stats", NoLimit, 0, EmptyStr, EmptyStr)
  /\ resp' = get_stats_result(cards_data)
  /\ UNCHANGED <<file, phase, cards_data>>

Next ==
  \/ startup_event
  \/ root
  \/ get_all_cards
  \/ get_card_by_id
  \/ search_cards_by_name
  \/ filter_cards_by_type
  \/ filter_cards_by_rarity
  \/ filter_cards_by_set
  \/ get_stats

Spec == Init /\ [][Next]_vars

\* --------------------------------------------- what the claims speak about
QueryOps ==
  {"get_all_cards", "get_card_by_id", "search_cards_by_name",
   "filter_cards_by_type", "filter_cards_by_rarity", "filter_cards_by_set",
   "get_stats"}

FilterOps == {"filter_cards_by_type", "filter_cards_by_rarity", "filter_cards_by_set"}

FilterField(op) ==
  IF op = "filter_cards_by_type" THEN "type"
  ELSE IF op = "filter_cards_by_rarity" THEN "rarity" ELSE "set"

\* The startup publish has assigned the cache.
Published == phase = "loaded"

\* The Dataset of a document: the list itself, the sequence under "cards",
\* or else the mapping's values in the mapping's order.
Dataset(d) ==
  IF d.kind = "list" THEN d.items
  ELSE IF \E i \in 1..Len(d.entries) : d.entries[i].k = CardsKey /\ d.entries[i].isList
       THEN d.entries[CHOOSE i \in 1..Len(d.entries) : d.entries[i].k = CardsKey].list
       ELSE [i \in 1..Len(d.entries) |-> d.entries[i].rec]

\* The records of D at the 0-based positions offset .. offset+limit-1.
Window(D, limit, offset) ==
  LET rest == IF offset >= Len(D) THEN 0 ELSE Len(D) - offset
      n == IF limit = NoLimit THEN rest ELSE Min(limit, rest)
  IN [i \in 1..n |-> D[offset + i]]

\* The subsequence of D at the positions in P, in D's order.
RECURSIVE Pick(_, _, _)
Pick(D, P, i) ==
  IF i > Len(D) THEN <<>>
  ELSE IF i \in P THEN <<D[i]>> \o Pick(D, P, i + 1) ELSE Pick(D, P, i + 1)

FieldOr(card, field, default) == IF field \in DOMAIN card THEN card[field] ELSE default

HasId(card, key) == "id" \in DOMAIN card /\ card["id"] = key

RECURSIVE SumN(_, _)
SumN(table, i) == IF i = 0 THEN 0 ELSE table[i].n + SumN(table, i - 1)

\* table counts every record of D once, under its own label
ExactTally(table, D, field) ==
  /\ SumN(table, Len(table)) = Len(D)
  /\ \A i, j \in 1..Len(table) : table[i].label = table[j].label => i = j
  /\ \A i \in 1..Len(table) :
       table[i].n = Cardinality({j \in 1..Len(D) : FieldOr(D[j], field, UnknownLabel) = table[i].label})
  /\ \A j \in 1..Len(D) :
       \E i \in 1..Len(table) : table[i].label = FieldOr(D[j], field, UnknownLabel)

Fields == {"id", "name", "type", "rarity", "set"}

LacksAField(D) == \E i \in 1..Len(D) : Fields \ DOMAIN D[i] # {}

\* The answer the handlers give to request r over the cache value d.
Answer(r, d) ==
  CASE r.op = "get_all_cards" -> get_all_cards_result(d, r.limit, r.offset)
    [] r.op = "get_card_by_id" -> get_card_by_id_result(d, r.a, r.b)
    [] r.op = "search_cards_by_name" -> search_cards_by_name_result(d, r.a)
    [] r.op = "filter_cards_by_type" -> filter_cards_by_type_result(d, r.a)
    [] r.op = "filter_cards_by_rarity" -> filter_cards_by_rarity_result(d, r.a)
    [] r.op = "filter_cards_by_set" -> filter_cards_by_set_result(d, r.a)
    [] r.op = "get_stats" -> get_stats_result(d)
    [] r.op = "root" -> RootResp
    [] OTHER -> NoResp

\* ----------------------------------------------------------------- claims
\* C1: while cards_data is still None, every one of the seven query
\* operations, whatever its arguments, answers NotLoaded (500, "Cards data
\* not loaded") and returns no records.
C1_NotLoadedBeforePublish ==
  (cards_data = NoneValue /\ req.op \in QueryOps) =>
     /\ resp = NotLoaded
     /\ resp.status = 500 /\ resp.cards = <<>>

C1_Witness ==
  /\ phase = "init" /\ cards_data = NoneValue /\ file.state = "ok"
  /\ req.op = "search_cards_by_name" /\ resp = NotLoaded

\* C2: when load_cards_data fails at startup (file missing or malformed),
\* cards_data is None in every later state, the load does not run again and
\* every query issued afterwards answers NotLoaded.
C2_FailedLoadNeverPopulates ==
  (phase # "init" /\ file.state # "ok") =>
     /\ phase = "failed"
     /\ cards_data = NoneValue
     /\ ~ ENABLED startup_event
     /\ req.op \in QueryOps => resp = NotLoaded

C2_Witness ==
  /\ phase = "failed" /\ file.state = "malformed" /\ cards_data = NoneValue
  /\ req.op = "get_stats" /\ resp = NotLoaded

\* C3: for every loaded Dataset, the empty one included, and every
\* offset >= length(Dataset), get_all_cards returns the empty sequence and
\* no error.
C3_OffsetBeyondEndGivesEmpty ==
  (Published /\ req.op = "get_all_cards" /\ req.offset >= Len(Dataset(cards_data))) =>
     resp = CardsResp(<<>>)

\* C4: for a published Dataset D, get_all_cards(limit, offset) returns
\* exactly the records of D at positions offset .. offset+limit-1 (to the
\* end when limit is absent), in D's order.
C4_ListIsWindow ==
  (Published /\ req.op = "get_all_cards") =>
     /\ resp = CardsResp(Window(Dataset(cards_data), req.limit, req.offset))
     /\ req.limit # NoLimit => Len(resp.cards) <= req.limit
     /\ (req.limit = NoLimit /\ req.offset = 0) => resp.cards = Dataset(cards_data)

\* C5: for a published Dataset of any of the source shapes,
\* get_card_by_id(set_id, card_id) returns the first record of the Dataset
\* whose id is "/{set_id}/{card_id}" and answers NotFound (404) exactly when
\* no record of the Dataset has that id.
C5_GetByKeyFirstMatch ==
  (Published /\ req.op = "get_card_by_id") =>
     LET D == Dataset(cards_data)
         key == <<"/">> \o req.a \o <<"/">> \o req.b
         hits == {i \in 1..Len(D) : HasId(D[i], key)}
     IN IF hits = {} THEN resp = NotFound
        ELSE resp = CardResp(D[CHOOSE i \in hits : \A j \in hits : i <= j])

\* C6: for a published Dataset D and any value v, each of the three filters
\* returns exactly the records of D, in D's order, whose field (empty string
\* when absent) equals v after case-folding both sides.
C6_FilterIsExactFoldedMatch ==
  (Published /\ req.op \in FilterOps) =>
     LET D == Dataset(cards_data)
         f == FilterField(req.op)
         P == {i \in 1..Len(D) : lower(FieldOr(D[i], f, EmptyStr)) = lower(req.a)}
     IN resp = CardsResp(Pick(D, P, 1))

\* C7: for a published Dataset D and any query q, search_cards_by_name
\* returns exactly the records of D, in D's order, whose name (empty string
\* when absent) contains q after case-folding both sides; no match gives the
\* empty sequence, not an error.
C7_SearchIsFoldedSubstring ==
  (Published /\ req.op = "search_cards_by_name") =>
     LET D == Dataset(cards_data)
         P == {i \in 1..Len(D) :
                 Contains(lower(FieldOr(D[i], "name", EmptyStr)), lower(req.a))}
     IN resp = CardsResp(Pick(D, P, 1))

\* C8: for every published Dataset of N >= 0 records, get_stats returns
\* total = N and three tables whose counts sum to N, a record without the
\* field counted under "Unknown", labels differing in case kept apart.
C8_StatsTallyAll ==
  (Published /\ req.op = "get_stats") =>
     LET D == Dataset(cards_data)
     IN /\ resp.kind = "stats" /\ resp.status = 200
        /\ resp.stats.total = Len(D)
        /\ ExactTally(resp.stats.types, D, "type")
        /\ ExactTally(resp.stats.rarities, D, "rarity")
        /\ ExactTally(resp.stats.sets, D, "set")

\* C9: once startup has published the Dataset no query changes it: after any
\* sequence of queries cards_data is the value published at startup, and the
\* last answer is the answer the same query gets on the published value.
C9_QueriesLeaveDatasetAlone ==
  Published =>
     /\ cards_data = file.doc
     /\ resp = Answer(req, file.doc)

C9_Witness ==
  /\ Published /\ cards_data = file.doc /\ cards_data.kind = "list"
  /\ Len(cards_data.items) = 2
  /\ req.op = "get_all_cards" /\ req.offset = 1 /\ req.limit = 1
  /\ resp = CardsResp(<<cards_data.items[2]>>)

\* C10: for a published Dataset with records that lack some of the fields,
\* every query completes with its normal result: search and the filters
\* read the missing field as the empty string, stats as "Unknown", and
\* get_card_by_id does not match a record without an id.
C10_MissingFieldsTolerated ==
  (Published /\ LacksAField(Dataset(cards_data)) /\ req.op \in QueryOps) =>
     LET D == Dataset(cards_data)
     IN /\ resp # Crash /\ resp # NotLoaded
        /\ req.op = "search_cards_by_name" =>
             resp = CardsResp(Pick(D, {i \in 1..Len(D) :
                      Contains(lower(FieldOr(D[i], "name", EmptyStr)), lower(req.a))}, 1))
        /\ req.op \in FilterOps =>
             resp = CardsResp(Pick(D, {i \in 1..Len(D) :
                      lower(FieldOr(D[i], FilterField(req.op), EmptyStr)) = lower(req.a)}, 1))
        /\ req.op = "get_stats" =>
             /\ resp.kind = "stats"
             /\ ExactTally(resp.stats.types, D, "type")
             /\ ExactTally(resp.stats.rarities, D, "rarity")
             /\ ExactTally(resp.stats.sets, D, "set")
        /\ req.op = "get_card_by_id" =>
             /\ resp.kind \in {"card", "error"}
             /\ resp.kind = "error" => resp = NotFound
             /\ resp.kind = "card" => "id" \in DOMAIN resp.cards[1]
====
